---- MODULE Spec2Model ----
(***************************************************************************)
(* Order lifecycle of the kakao_order ordering platform: order submission  *)
(* (routes/$name.tsx action + saveOrder), the owner's accept action        *)
(* (routes/owner.orders.tsx action), the menu edit action (routes/admin),  *)
(* phone capture and login/logout, over the four relations of the hosted   *)
(* datastore.  Each request handler is one action; what the datastore or   *)
(* the webhook endpoint answers is an input of the action.                 *)
(***************************************************************************)
EXTENDS Integers, Sequences, FiniteSets, TLC

VARIABLES
    orders,          \* relation "order": sequence of rows, order_id = index
    orderitems,      \* relation "orderitem": sequence of rows
    menuPrice,       \* relation "menuItem": live price of each menu item
    customernumber,  \* profiles.customernumber of each identity
    user,            \* identity of the browser session (auth cookie)
    last,            \* what the last request handler returned / did
    accepts,         \* the accept requests in flight, by request
    page,            \* what the browser shows
    pageName,        \* store page: the path segment it was loaded for
    catalog,         \* store page: loaderData.menuItems, the prices loaded
    orderItems,      \* store page: orderItems state, the cart
    phoneNumber,     \* store page: phoneNumber state (the order form's field)
    pendingOrder,    \* sessionStorage "pendingOrder", the staged draft
    phoneInput,      \* phone page: phoneNumber state (the form's field)
    effectPending,   \* phone page: the effect is scheduled to run
    draftOrders,     \* order rows inserted from the draft now in storage
    event,           \* the last thing the customer did in the tab
    createdat,       \* relation "order": column createdat, by order id
    now,             \* the clock, in milliseconds since the start of today
    dash,            \* the owner's dashboard tab: loader data and state
    channel,         \* realtime INSERT events on their way to the dashboard
    handlers,        \* INSERT handlers of the dashboard awaiting their query
    timers,          \* due times of the dashboard's pending setTimeout calls
    saving,          \* the saveOrder call between its two inserts
    dashEvent        \* the last thing that happened in the dashboard tab

\* The state of the browser tab.
clientVars ==
    <<page, pageName, catalog, orderItems, phoneNumber, pendingOrder, phoneInput,
      effectPending, draftOrders, event>>

\* The clock, the dashboard tab and what is in flight around it.
boardVars == <<now, dash, channel, handlers, timers, saving, dashEvent>>

vars ==
    <<orders, orderitems, menuPrice, customernumber, user, last, accepts,
      clientVars, createdat, boardVars>>

(* ------------------------------ bounds --------------------------------- *)

\* Number of order rows the datastore may hold.
MaxOrders == 2

\* Largest quantity of a cart line.
MaxQuantity == 3

\* The clock advances in ticks of TickMs milliseconds, MaxTicks of them.
TickMs == 5000
MaxTicks == 2

\* Largest page number a dashboard URL carries.
MaxPage == 3

(* --------------------------- value domains ----------------------------- *)

NoUser == "none"
\* sessionStorage holds no "pendingOrder" (a staged draft always has lines).
NoDraft ==
    [orderItems |-> <<>>, totalAmount |-> 0, storeName |-> "",
     phoneNumber |-> "null"]
NoProfile == "noprofile"
NoPhone == "null"
NaN == "NaN"

\* Identities; every identity has a profile row and owns the store of that id.
Users == {"A", "B"}

\* profiles.name: the path segment of each store page.
profileName == [A |-> "a", B |-> "b"]

\* Path segments a request may carry; "x" is the name of no profile.
PathNames == {"a", "b", "x"}

MenuItems == {"m1", "m2", "m3"}
menuOwner == [m1 |-> "A", m2 |-> "A", m3 |-> "B"]
Prices == {2, 8}

\* Phone strings: blank, malformed, and two well-formed numbers (the one typed
\* into the order form, the one saved through phone capture).
TypedPhone == "010-1"
SavedPhone == "010-2"
PhoneInputs == {"", "abc", SavedPhone}

Line(i, p, q) == [id |-> i, price |-> p, quantity |-> q]

\* The cart of each store page: lines of that store's items, one line per
\* item id, quantity >= 1, price the snapshot taken when the line was added.
\* A page whose store no longer resolves ("x") still holds the cart it was
\* loaded with.
CartsOf(n) ==
    IF n = "b"
    THEN { <<Line("m3", 2, 1)>> }
    ELSE { <<Line("m1", 8, 1), Line("m2", 2, 2)>> }

(* ---------------------------- conversions ------------------------------ *)

RECURSIVE NumToStr(_)
\* String(n) of a non-negative integer: its decimal digits, most significant first.
NumToStr(n) ==
    IF n < 10 THEN <<n>> ELSE Append(NumToStr(n \div 10), n % 10)

RECURSIVE ParseDigits(_, _)
ParseDigits(s, acc) ==
    IF s = <<>> THEN acc ELSE ParseDigits(Tail(s), acc * 10 + Head(s))

\* parseInt(s): the number the leading digits denote, NaN when there are none.
ParseInt(s) ==
    IF s = <<>> THEN NaN ELSE ParseDigits(s, 0)

\* phoneNumber.trim() === "" ; /^[0-9-]+$/.test(phoneNumber.trim())
IsBlank(s) == s = ""
PhoneRegexOk(s) == s \in {TypedPhone, SavedPhone}

(* ------------------------------ client --------------------------------- *)

RECURSIVE SumLines(_, _)
SumLines(cart, sum) ==
    IF cart = <<>> THEN sum
    ELSE SumLines(Tail(cart), sum + Head(cart).price * Head(cart).quantity)

RECURSIVE SumPrices(_, _)
SumPrices(cart, sum) ==
    IF cart = <<>> THEN sum ELSE SumPrices(Tail(cart), sum + Head(cart).price)

\* Variant of CartTotal: the reducer drops the quantity.
CartTotalNoQuantity(cart) == SumPrices(cart, 0)

\* orderItems.reduce((sum, item) => sum + item.price * item.quantity, 0)
CartTotal(cart) == SumLines(cart, 0)

\* The hidden inputs of the order form of the store page.
OrderForm(cart, phone) ==
    [orderItems |-> cart,
     totalAmount |-> NumToStr(CartTotal(cart)),
     phoneNumber |-> phone,
     autoOrder |-> FALSE]

\* saveOrderToSession: the draft written to sessionStorage "pendingOrder".
SaveOrderToSession(cart, name, phone) ==
    [orderItems |-> cart,
     totalAmount |-> CartTotal(cart),
     storeName |-> name,
     phoneNumber |-> IF IsBlank(phone) THEN NoPhone ELSE phone]

\* processOrder: the FormData posted to /<storeName> for a staged draft.
ProcessOrderForm(draft, typed) ==
    [orderItems |-> draft.orderItems,
     totalAmount |-> NumToStr(draft.totalAmount),
     phoneNumber |-> IF draft.phoneNumber # NoPhone THEN draft.phoneNumber ELSE typed,
     autoOrder |-> TRUE]

\* The forms the two client paths can post to the page of store name n.
FormsOf(n) ==
    { OrderForm(c, TypedPhone) : c \in CartsOf(n) }
        \cup { ProcessOrderForm(SaveOrderToSession(c, n, p), "") :
                 c \in CartsOf(n), p \in {"", TypedPhone} }

\* The order form alone.
LeanFormsOf(n) == { OrderForm(c, TypedPhone) : c \in CartsOf(n) }

(* ----------------------------- datastore ------------------------------- *)

\* profiles .eq("name", name).single(): the row when exactly one matches.
FindProfileByName(n) ==
    LET m == {u \in Users : profileName[u] = n}
    IN IF Cardinality(m) = 1 THEN CHOOSE u \in m : TRUE ELSE NoProfile

\* order .insert([{phoneNumber, totalAmount, status: "PENDING", profile_id}])
InsertOrder(os, phone, total, pid) ==
    Append(os, [order_id |-> Len(os) + 1,
                phoneNumber |-> phone,
                totalAmount |-> total,
                status |-> "PENDING",
                profile_id |-> pid])

\* Column createdat (default now()) once the rows of os2 beyond those already
\* stamped are inserted at time t.
CreatedAt(cat, os2, t) == cat \o [k \in 1..(Len(os2) - Len(cat)) |-> t]

\* Variant of OrderItemRows: the row stores the line's subtotal as its price.
OrderItemRowsSubtotal(cart, orderId) ==
    [k \in 1..Len(cart) |->
        [orderId |-> orderId,
         menuItemId |-> cart[k].id,
         quantity |-> cart[k].quantity,
         price |-> cart[k].price * cart[k].quantity]]

\* orderItems.map(item => ({orderId, menuItemId, quantity, price}))
OrderItemRows(cart, orderId) ==
    [k \in 1..Len(cart) |->
        [orderId |-> orderId,
         menuItemId |-> cart[k].id,
         quantity |-> cart[k].quantity,
         price |-> cart[k].price]]

\* The rows of orderitem that reference order id.
ItemsOfOrder(its, id) == SelectSeq(its, LAMBDA r : r.orderId = id)

RECURSIVE SumRows(_)
SumRows(rows) ==
    IF rows = <<>> THEN 0
    ELSE Head(rows).price * Head(rows).quantity + SumRows(Tail(rows))

\* Variant of SaveOrder: a failed orderitem insert deletes the order row again.
SaveOrderRollback(os, its, cart, phone, total, pid, orderOk, itemsOk) ==
    IF ~orderOk \/ ~itemsOk
    THEN [orders |-> os, orderitems |-> its, ok |-> FALSE, orderId |-> 0]
    ELSE LET os2 == InsertOrder(os, phone, total, pid)
             id == os2[Len(os2)].order_id
         IN [orders |-> os2,
             orderitems |-> its \o OrderItemRows(cart, id),
             ok |-> TRUE, orderId |-> id]

\* Variant of SaveOrder: the error of the orderitem insert is not looked at.
SaveOrderIgnoresItemError(os, its, cart, phone, total, pid, orderOk, itemsOk) ==
    IF ~orderOk
    THEN [orders |-> os, orderitems |-> its, ok |-> FALSE, orderId |-> 0]
    ELSE LET os2 == InsertOrder(os, phone, total, pid)
             id == os2[Len(os2)].order_id
         IN [orders |-> os2,
             orderitems |-> IF itemsOk THEN its \o OrderItemRows(cart, id)
                            ELSE its,
             ok |-> TRUE, orderId |-> id]

\* saveOrder: insert the order, then its items; no rollback between the two.
\* orderOk / itemsOk: whether the datastore accepts each insert.
SaveOrder(os, its, cart, phone, total, pid, orderOk, itemsOk) ==
    IF ~orderOk
    THEN [orders |-> os, orderitems |-> its, ok |-> FALSE, orderId |-> 0]
    ELSE LET os2 == InsertOrder(os, phone, total, pid)
             id == os2[Len(os2)].order_id
         IN IF ~itemsOk
            THEN [orders |-> os2, orderitems |-> its, ok |-> FALSE, orderId |-> 0]
            ELSE [orders |-> os2,
                  orderitems |-> its \o OrderItemRows(cart, id),
                  ok |-> TRUE, orderId |-> id]

(* ------------------------ routes/$name.tsx action ----------------------- *)

\* What the environment does at a webhook stage: "unset" no URL is
\* configured, "ok" / "notok" the POST is answered (res.ok or not),
\* "throws" fetch rejects.
HookResults == {"unset", "ok", "notok", "throws"}

\* What the datastore does with the two inserts of saveOrder.
DbResults == {"ok", "orderFails", "itemsFail"}

\* What a handler returned and did: result, the order id it returned (submit)
\* or was given (accept), rows changed by its update, webhook POSTs it made,
\* what the webhook stage met ("-" when the stage was not reached), and the
\* store profile the path resolved to ("-" when it was not looked up).  cart
\* and db are filled in by the request: the cart it carried (submit) or the
\* items of the payload it built (accept), and what the datastore answered it
\* ("-" when it was not asked).
Answer(op, result, orderId, rows, hooks, hook, store) ==
    [op |-> op, result |-> result, orderId |-> orderId, rows |-> rows,
     hooks |-> hooks, hook |-> hook, store |-> store,
     cart |-> <<>>, db |-> "-"]

\* Variant of RequiresAuth: the missing user ends in the catch block.
RequiresAuthAsFailure == Answer("submit", "failed", 0, 0, 0, "-", "-")

\* { success: false, message: "...", requiresAuth: true }
RequiresAuth == Answer("submit", "requiresAuth", 0, 0, 0, "-", "-")

\* The catch block: { success: false, message: "주문 처리 중 오류가 발생했습니다." }
ProcessingFailed(store) == Answer("submit", "failed", 0, 0, 0, "-", store)

\* The phone number the order is saved with: an automatic order with a blank
\* phone takes profiles.customernumber of the caller when there is one.
OrderPhone(form, cn, u) ==
    IF form.autoOrder /\ IsBlank(form.phoneNumber) /\ cn[u] # NoPhone
    THEN cn[u]
    ELSE form.phoneNumber

\* Number of POSTs of the order-created webhook stage: one fetch when the URL
\* is set, inside try/catch, no retry.
StoreHookAttempts(hook) == IF hook = "unset" THEN 0 ELSE 1

\* Variant of ResultAfterStoreHook: a rejected fetch reaches the catch block.
ResultHookThrowPropagates(hook) == IF hook = "throws" THEN "failed" ELSE "success"

\* What the action returns once saveOrder returned: the webhook stage swallows
\* a rejected fetch and ignores res.ok.
ResultAfterStoreHook(hook) == "success"

\* The order branch of the action: what it persists and what it returns.
SubmitOutcome(u, path, form, cn, os, its, db, hook) ==
    IF u = NoUser
    THEN [orders |-> os, orderitems |-> its, last |-> RequiresAuth]
    ELSE LET pid == FindProfileByName(path)
             s == SaveOrder(os, its, form.orderItems, OrderPhone(form, cn, u),
                            ParseInt(form.totalAmount), pid,
                            db # "orderFails", db # "itemsFail")
         IN IF pid = NoProfile
            THEN [orders |-> os, orderitems |-> its,
                  last |-> ProcessingFailed(pid)]
            ELSE IF ~s.ok
            THEN [orders |-> s.orders, orderitems |-> s.orderitems,
                  last |-> ProcessingFailed(pid)]
            ELSE [orders |-> s.orders, orderitems |-> s.orderitems,
                  last |-> Answer("submit", ResultAfterStoreHook(hook),
                                  s.orderId, 0, StoreHookAttempts(hook),
                                  hook, pid)]

\* Whether the request reaches saveOrder, and whether it inserts an order row.
ReachesSave(u, path) == u # NoUser /\ FindProfileByName(path) # NoProfile
InsertsOrder(u, path, db) == ReachesSave(u, path) /\ db # "orderFails"

\* One order request: the path segment, the posted form, and what the
\* datastore and the webhook endpoint answer.
SubmitRequest(path, form, db, hook) ==
    /\ InsertsOrder(user, path, db) => Len(orders) < MaxOrders
    /\ LET o == SubmitOutcome(user, path, form, customernumber, orders,
                              orderitems, db, hook)
       IN /\ orders' = o.orders
          /\ createdat' = CreatedAt(createdat, o.orders, now)
          /\ orderitems' = o.orderitems
          /\ last' = [o.last EXCEPT
                         !.cart = form.orderItems,
                         !.db = IF ReachesSave(user, path) THEN db ELSE "-"]
    /\ UNCHANGED <<menuPrice, customernumber, user, accepts, boardVars,
                   clientVars>>

\* The inputs a request consumes: the datastore is asked only when saveOrder
\* is reached, the webhook endpoint only after both inserts.
DbInputs(u, path, Dbs) == IF ReachesSave(u, path) THEN Dbs ELSE {"ok"}
HookInputs(u, path, db) ==
    IF ReachesSave(u, path) /\ db = "ok" THEN HookResults ELSE {"unset"}

\* Order submission: every form of the two client paths, every answer of the
\* datastore.
SubmitOrder ==
    \E path \in PathNames :
      \E form \in FormsOf(path), db \in DbInputs(user, path, DbResults) :
        \E hook \in HookInputs(user, path, db) :
          SubmitRequest(path, form, db, hook)

\* Order submission with the order form of the page, the orderitem insert
\* being accepted.
SubmitOrderForm ==
    \E path \in PathNames :
      \E form \in LeanFormsOf(path),
         db \in DbInputs(user, path, {"ok", "orderFails"}) :
        \E hook \in HookInputs(user, path, db) :
          SubmitRequest(path, form, db, hook)

\* actionType "logout": client.auth.signOut()
Logout ==
    /\ user' = NoUser
    /\ last' = Answer("logout", "redirect", 0, 0, 0, "-", "-")
    /\ UNCHANGED <<orders, orderitems, menuPrice, customernumber, accepts,
                   createdat, boardVars, clientVars>>

\* actionType "updatePhoneNumber" (and the action of customer/phone.tsx):
\* 401 without a user, 400 for a blank or malformed number, 500 when the
\* update is rejected, else profiles.customernumber of the caller is set.
UpdatePhoneNumber ==
    \E p \in PhoneInputs, dbOk \in BOOLEAN :
      /\ IF user # NoUser /\ ~IsBlank(p) /\ PhoneRegexOk(p) /\ dbOk
         THEN /\ customernumber' = [customernumber EXCEPT ![user] = p]
              /\ last' = Answer("phone", "saved", 0, 0, 0, "-", "-")
         ELSE /\ UNCHANGED customernumber
              /\ last' = Answer("phone", "error", 0, 0, 0, "-", "-")
      /\ UNCHANGED <<orders, orderitems, menuPrice, user, accepts, createdat,
                     boardVars, clientVars>>

(* ------------------------------ login ----------------------------------- *)

\* signInWithPassword / OAuth callback: the session now carries identity u.
Login ==
    \E u \in Users :
      /\ user' = u
      /\ last' = Answer("login", "redirect", 0, 0, 0, "-", "-")
      /\ UNCHANGED <<orders, orderitems, menuPrice, customernumber, accepts,
                     createdat, boardVars, clientVars>>

(* ------------------------ routes/admin.tsx action ----------------------- *)

\* case "edit": 401 without a user, 400 for a negative price, else the update
\* filtered on the item id and the caller's profile id.
EditMenuItem ==
    \E id \in MenuItems, price \in Prices \cup {-1}, dbOk \in BOOLEAN :
      /\ IF user # NoUser /\ price >= 0 /\ dbOk
         THEN /\ menuPrice' = [m \in MenuItems |->
                                 IF m = id /\ menuOwner[m] = user
                                 THEN price ELSE menuPrice[m]]
              /\ last' = Answer("edit", "success", 0, 0, 0, "-", "-")
         ELSE /\ UNCHANGED menuPrice
              /\ last' = Answer("edit", "error", 0, 0, 0, "-", "-")
      /\ UNCHANGED <<orders, orderitems, customernumber, user, accepts,
                     createdat, boardVars, clientVars>>

(* --------------------- routes/owner.orders.tsx action ------------------- *)

\* Variant of MatchesAccept: the update is filtered on the store alone.
MatchesProfileOnly(row, orderId, uid) == row.profile_id = uid

\* Rows the accept update matches: .eq("order_id", orderId).eq("profile_id", user.id)
MatchesAccept(row, orderId, uid) ==
    row.order_id = orderId /\ row.profile_id = uid

\* Variant of AcceptedStatus: accepting an accepted order reverts it.
ToggledStatus(old) == IF old = "ACCEPT" THEN "PENDING" ELSE "ACCEPT"

\* The status the update writes: .update({ status: "ACCEPT" })
AcceptedStatus(old) == "ACCEPT"

\* The update on the matching rows.
UpdateStatusAccept(os, orderId, uid) ==
    [k \in 1..Len(os) |->
        IF MatchesAccept(os[k], orderId, uid)
        THEN [os[k] EXCEPT !.status = AcceptedStatus(os[k].status)]
        ELSE os[k]]

RowsMatched(os, orderId, uid) ==
    Cardinality({k \in 1..Len(os) : MatchesAccept(os[k], orderId, uid)})

\* Number of POSTs of the order-accepted webhook stage: one fetch when the URL
\* is set, whatever the update matched.
AcceptHookAttempts(hook, rows) == IF hook = "unset" THEN 0 ELSE 1

\* How the action ends after the webhook stage: fetch is awaited outside any
\* try block, so a rejected fetch leaves the action as an exception; res.ok is
\* not looked at.
AcceptHookResult(hook) == IF hook = "throws" THEN "throw" ELSE "redirect"

\* Variant of AcceptPayloadItems: the payload takes the price of the menu item.
AcceptPayloadLivePrice(its, orderId, prices) ==
    LET rows == ItemsOfOrder(its, orderId)
    IN [k \in 1..Len(rows) |->
          [id |-> rows[k].menuItemId,
           price |-> prices[rows[k].menuItemId],
           quantity |-> rows[k].quantity]]

\* payload.items: the orderitem rows of the order as re-read, each with its
\* stored price; the joined menuItem gives the name only.
AcceptPayloadItems(its, orderId, prices) ==
    LET rows == ItemsOfOrder(its, orderId)
    IN [k \in 1..Len(rows) |->
          [id |-> rows[k].menuItemId,
           price |-> rows[k].price,
           quantity |-> rows[k].quantity]]

\* payload.order.phoneNumber: the order re-read with .eq("order_id", orderId)
\* alone; order?.phoneNumber ?? null.
AcceptPayloadPhone(os, orderId) ==
    IF orderId \in 1..Len(os) THEN os[orderId].phoneNumber ELSE NoPhone

\* actionType "accept". orderId 0 is the missing form field.
AcceptOutcome(u, orderId, os, updOk, hook) ==
    IF orderId = 0
    THEN [orders |-> os,
          last |-> Answer("accept", "redirect", orderId, 0, 0, "-", "-")]
    ELSE IF u = NoUser
    THEN [orders |-> os,
          last |-> Answer("accept", "loginRedirect", orderId, 0, 0, "-", "-")]
    ELSE IF ~updOk
    THEN [orders |-> os,
          last |-> Answer("accept", "throw", orderId, 0, 0, "-", "-")]
    ELSE LET rows == RowsMatched(os, orderId, u)
         IN [orders |-> UpdateStatusAccept(os, orderId, u),
             last |-> Answer("accept", AcceptHookResult(hook), orderId, rows,
                             AcceptHookAttempts(hook, rows), hook, "-")]

\* One accept request: the order id of the form, whether the datastore
\* executes the update, and what the webhook endpoint answers.
AcceptRequest(orderId, updOk, hook) ==
    LET o == AcceptOutcome(user, orderId, orders, updOk, hook)
    IN /\ orders' = o.orders
       /\ last' = [o.last EXCEPT
                      !.db = IF orderId = 0 \/ user = NoUser THEN "-"
                             ELSE IF updOk THEN "ok" ELSE "updateFails",
                      !.cart = IF orderId = 0 \/ user = NoUser \/ ~updOk
                               THEN <<>>
                               ELSE AcceptPayloadItems(orderitems, orderId,
                                                       menuPrice)]
       /\ UNCHANGED <<orderitems, menuPrice, customernumber, user, accepts,
                      createdat, boardVars, clientVars>>

AcceptOrder ==
    \E orderId \in 0..(Len(orders) + 1) :
      \E updOk \in (IF orderId # 0 /\ user # NoUser THEN BOOLEAN ELSE {TRUE}) :
        \E hook \in (IF orderId # 0 /\ user # NoUser /\ updOk
                     THEN HookResults ELSE {"unset"}) :
          AcceptRequest(orderId, updOk, hook)

(* ------------- routes/owner.orders.tsx action, step by step ------------- *)

\* The accept requests that may be in flight together.
Requests == {"r1", "r2"}

\* A request that has not been sent.  pc: "idle", "authed" (the form and the
\* user were read), "updated" (the update statement returned), "done".
IdleAccept ==
    [pc |-> "idle", orderId |-> 0, uid |-> NoUser, db |-> "-", rows |-> 0,
     hooks |-> 0, hook |-> "-", result |-> "-"]

\* The action reads orderId from the form and the user from the session.
BeginAccept ==
    \E r \in Requests, orderId \in 1..Len(orders) :
      /\ accepts[r].pc = "idle"
      /\ accepts' = [accepts EXCEPT ![r] =
            IF user = NoUser
            THEN [IdleAccept EXCEPT !.pc = "done", !.orderId = orderId,
                                    !.result = "loginRedirect"]
            ELSE [IdleAccept EXCEPT !.pc = "authed", !.orderId = orderId,
                                    !.uid = user]]
      /\ UNCHANGED <<orders, orderitems, menuPrice, customernumber, user,
                     last, clientVars, createdat, boardVars>>

\* The update statement of one request; upErr is thrown.
AcceptUpdateStep ==
    \E r \in Requests, updOk \in BOOLEAN :
      LET a == accepts[r]
      IN /\ a.pc = "authed"
         /\ IF updOk
            THEN /\ orders' = UpdateStatusAccept(orders, a.orderId, a.uid)
                 /\ accepts' = [accepts EXCEPT ![r] =
                       [a EXCEPT !.pc = "updated", !.db = "ok",
                                 !.rows = RowsMatched(orders, a.orderId, a.uid)]]
            ELSE /\ orders' = orders
                 /\ accepts' = [accepts EXCEPT ![r] =
                       [a EXCEPT !.pc = "done", !.db = "updateFails",
                                 !.result = "throw"]]
         /\ UNCHANGED <<orderitems, menuPrice, customernumber, user, last,
                        clientVars, createdat, boardVars>>

\* The re-reads, the webhook stage and the redirect of one request.
AcceptNotifyStep ==
    \E r \in Requests, hook \in HookResults :
      LET a == accepts[r]
      IN /\ a.pc = "updated"
         /\ accepts' = [accepts EXCEPT ![r] =
               [a EXCEPT !.pc = "done", !.hook = hook,
                         !.hooks = AcceptHookAttempts(hook, a.rows),
                         !.result = AcceptHookResult(hook)]]
         /\ UNCHANGED <<orders, orderitems, menuPrice, customernumber, user,
                        last, clientVars, createdat, boardVars>>

(* ---------------------- routes/$name.tsx OrderPage ---------------------- *)

\* What the customer did: op, the menu item it was about, and the quantity
\* of that item's cart line before ("-" and 0 when there is none).
Event(op, item, before) == [op |-> op, item |-> item, before |-> before]

\* The menu items the loader of store page n returns.
StoreItems(n) ==
    {m \in MenuItems : menuOwner[m] \in Users /\ profileName[menuOwner[m]] = n}

\* prev.find(item => item.id === menuItem.id): its quantity, 0 when absent.
QuantityOf(lines, m) ==
    IF \E k \in 1..Len(lines) : lines[k].id = m
    THEN lines[CHOOSE k \in 1..Len(lines) : lines[k].id = m].quantity
    ELSE 0

\* Variant of IncreaseLines: an existing line takes the catalog price again.
IncreaseLinesRecapture(lines, m, price) ==
    IF QuantityOf(lines, m) > 0
    THEN [k \in 1..Len(lines) |->
            IF lines[k].id = m
            THEN Line(m, price, lines[k].quantity + 1) ELSE lines[k]]
    ELSE Append(lines, Line(m, price, 1))

\* increaseQuantity: quantity + 1 on the existing line, else a new line with
\* quantity 1 and the price of the loaded menu item.
IncreaseLines(lines, m, price) ==
    IF QuantityOf(lines, m) > 0
    THEN [k \in 1..Len(lines) |->
            IF lines[k].id = m
            THEN [lines[k] EXCEPT !.quantity = lines[k].quantity + 1]
            ELSE lines[k]]
    ELSE Append(lines, Line(m, price, 1))

\* Variant of DecreaseLines: the line is kept whatever its quantity becomes.
DecreaseLinesKeepZero(lines, m) ==
    [k \in 1..Len(lines) |->
        IF lines[k].id = m
        THEN [lines[k] EXCEPT !.quantity = lines[k].quantity - 1]
        ELSE lines[k]]

\* decreaseQuantity: quantity - 1 on a line of quantity > 1, else the line
\* (if any) is filtered out.
DecreaseLines(lines, m) ==
    IF QuantityOf(lines, m) > 1
    THEN [k \in 1..Len(lines) |->
            IF lines[k].id = m
            THEN [lines[k] EXCEPT !.quantity = lines[k].quantity - 1]
            ELSE lines[k]]
    ELSE SelectSeq(lines, LAMBDA l : l.id # m)

\* The loader and the first render of the store page: the menu as it is now,
\* an empty cart, an empty phone field.
OpenStorePage ==
    \E n \in PathNames \ {"x"} :
      /\ page' = "store"
      /\ pageName' = n
      /\ catalog' = menuPrice
      /\ orderItems' = <<>>
      /\ phoneNumber' = ""
      /\ event' = Event("open", "-", 0)
      /\ UNCHANGED <<orders, orderitems, menuPrice, customernumber, user,
                     last, accepts, createdat, boardVars, pendingOrder,
                     phoneInput, effectPending, draftOrders>>

\* The loader run again for the page on display (revalidation after an
\* action): loaderData is replaced, the component state is kept.
RevalidateStorePage ==
    /\ page = "store"
    /\ catalog' = menuPrice
    /\ event' = Event("revalidate", "-", 0)
    /\ UNCHANGED <<orders, orderitems, menuPrice, customernumber, user, last,
                   accepts, createdat, boardVars, page, pageName, orderItems,
                   phoneNumber, pendingOrder, phoneInput, effectPending,
                   draftOrders>>

\* The + button of a menu item of the page.
IncreaseQuantity ==
    \E m \in StoreItems(pageName) :
      /\ page = "store"
      /\ QuantityOf(orderItems, m) < MaxQuantity
      /\ orderItems' = IncreaseLines(orderItems, m, catalog[m])
      /\ event' = Event("increase", m, QuantityOf(orderItems, m))
      /\ UNCHANGED <<orders, orderitems, menuPrice, customernumber, user,
                     last, accepts, createdat, boardVars, page, pageName,
                     catalog, phoneNumber, pendingOrder, phoneInput,
                     effectPending, draftOrders>>

\* The - button of a menu item of the page.
DecreaseQuantity ==
    \E m \in StoreItems(pageName) :
      /\ page = "store"
      /\ orderItems' = DecreaseLines(orderItems, m)
      /\ event' = Event("decrease", m, QuantityOf(orderItems, m))
      /\ UNCHANGED <<orders, orderitems, menuPrice, customernumber, user,
                     last, accepts, createdat, boardVars, page, pageName,
                     catalog, phoneNumber, pendingOrder, phoneInput,
                     effectPending, draftOrders>>

\* The customer picks the items of the page's cart (a run of + clicks).
FillCart ==
    \E c \in CartsOf(pageName) :
      /\ page = "store"
      /\ orderItems' = c
      /\ event' = Event("fill", "-", 0)
      /\ UNCHANGED <<orders, orderitems, menuPrice, customernumber, user,
                     last, accepts, createdat, boardVars, page, pageName,
                     catalog, phoneNumber, pendingOrder, phoneInput,
                     effectPending, draftOrders>>

\* The customer types into the phone field of the order form.
TypePhoneNumber ==
    \E p \in {"", TypedPhone} \ {phoneNumber} :
      /\ page = "store"
      /\ phoneNumber' = p
      /\ event' = Event("typePhone", "-", 0)
      /\ UNCHANGED <<orders, orderitems, menuPrice, customernumber, user,
                     last, accepts, createdat, boardVars, page, pageName,
                     catalog, orderItems, pendingOrder, phoneInput,
                     effectPending, draftOrders>>

\* Variant of StageDraft: the draft is written whatever the cart holds.
StageDraftAlways(lines, name, phone, old) ==
    SaveOrderToSession(lines, name, phone)

\* saveOrderToSession: sessionStorage is written only for a non-empty cart.
StageDraft(lines, name, phone, old) ==
    IF Len(lines) > 0 THEN SaveOrderToSession(lines, name, phone) ELSE old

\* handleKakaoLogin: stage the draft, then signInWithOAuth sends the browser
\* to the identity provider (or reports an error and the page stays).
HandleKakaoLogin ==
    \E oauthOk \in BOOLEAN :
      /\ page = "store"
      /\ user = NoUser
      /\ pendingOrder' = StageDraft(orderItems, pageName, phoneNumber,
                                    pendingOrder)
      /\ draftOrders' = IF Len(orderItems) > 0 THEN 0 ELSE draftOrders
      /\ page' = IF oauthOk THEN "idp" ELSE "store"
      /\ event' = Event("kakaoLogin", "-", 0)
      /\ UNCHANGED <<orders, orderitems, menuPrice, customernumber, user,
                     last, accepts, createdat, boardVars, pageName, catalog,
                     orderItems, phoneNumber, phoneInput, effectPending>>

\* The effect on actionData of the store page: sessionStorage.removeItem
\* whenever the action's answer carries success = true.
DraftAfterStoreAction(old, success) == IF success THEN NoDraft ELSE old

\* The phone modal of the store page (shown to a signed-in customer without a
\* saved number): the form posts actionType updatePhoneNumber; on success the
\* effects on actionData run and the page reloads itself.
SavePhoneOnStorePage ==
    \E p \in PhoneInputs, dbOk \in BOOLEAN :
      LET saved == ~IsBlank(p) /\ PhoneRegexOk(p) /\ dbOk
      IN /\ page = "store"
         /\ user \in Users
         /\ customernumber[user] = NoPhone
         /\ customernumber' = IF saved
                              THEN [customernumber EXCEPT ![user] = p]
                              ELSE customernumber
         /\ last' = Answer("phone", IF saved THEN "saved" ELSE "error",
                           0, 0, 0, "-", "-")
         /\ pendingOrder' = DraftAfterStoreAction(pendingOrder, saved)
         /\ catalog' = IF saved THEN menuPrice ELSE catalog
         /\ orderItems' = IF saved THEN <<>> ELSE orderItems
         /\ phoneNumber' = IF saved THEN "" ELSE phoneNumber
         /\ event' = Event("savePhone", "-", 0)
         /\ UNCHANGED <<orders, orderitems, menuPrice, user, accepts,
                        createdat, boardVars, page, pageName, phoneInput,
                        effectPending, draftOrders>>

\* canOrder: a cart, a phone number in the field, and a signed-in customer.
CanOrder(lines, phone, u) == Len(lines) > 0 /\ ~IsBlank(phone) /\ u # NoUser

\* The order form of the store page: handleSubmit blocks the submit unless
\* canOrder, else stages the cart as the draft and the form is posted; the
\* effect on actionData removes the draft when the answer is a success, and
\* the loader runs again.
HandleSubmit ==
    /\ page = "store"
    /\ IF ~CanOrder(orderItems, phoneNumber, user)
       THEN /\ event' = Event("submit", "blocked", 0)
            /\ UNCHANGED <<orders, orderitems, last, pendingOrder, catalog,
                           draftOrders>>
       ELSE \E db \in DbInputs(user, pageName, DbResults) :
              LET form == OrderForm(orderItems, phoneNumber)
                  o == SubmitOutcome(user, pageName, form, customernumber,
                                     orders, orderitems, db, "ok")
              IN /\ InsertsOrder(user, pageName, db) => Len(orders) < MaxOrders
                 /\ orders' = o.orders
                 /\ orderitems' = o.orderitems
                 /\ last' = [o.last EXCEPT
                                !.cart = form.orderItems,
                                !.db = IF ReachesSave(user, pageName)
                                       THEN db ELSE "-"]
                 /\ pendingOrder' =
                        DraftAfterStoreAction(
                            StageDraft(orderItems, pageName, phoneNumber,
                                       pendingOrder),
                            o.last.result = "success")
                 /\ draftOrders' = Len(o.orders) - Len(orders)
                 /\ catalog' = menuPrice
                 /\ event' = Event("submit", "posted", 0)
    /\ createdat' = CreatedAt(createdat, orders', now)
    /\ UNCHANGED <<menuPrice, customernumber, user, accepts,
                   boardVars, page, pageName, orderItems, phoneNumber,
                   phoneInput, effectPending>>

(* ---------------------- auth callback (part_004) ------------------------ *)

\* The identity provider returns to /auth/callback?next=<store page>: the
\* code is exchanged for a session (or not), then the browser is redirected
\* to next and the store page is loaded anew.
OAuthCallback ==
    \E u \in Users, codeOk \in BOOLEAN :
      /\ page = "idp"
      /\ user' = IF codeOk THEN u ELSE user
      /\ page' = "store"
      /\ catalog' = menuPrice
      /\ orderItems' = <<>>
      /\ phoneNumber' = ""
      /\ event' = Event("callback", "-", 0)
      /\ UNCHANGED <<orders, orderitems, menuPrice, customernumber, last,
                     accepts, createdat, boardVars, pageName, pendingOrder,
                     phoneInput, effectPending, draftOrders>>

(* --------------------- routes/customer/phone.tsx ------------------------ *)

\* What the phone page is sent to by its loader: the login page without a
\* user, the home page when the profile read returns a customernumber, else
\* the page itself (saved: the URL carries phoneSaved=true).
PhoneLoader(u, cn, saved, readOk) ==
    IF u = NoUser THEN "login"
    ELSE IF readOk /\ cn[u] # NoPhone THEN "home"
    ELSE IF saved THEN "phoneSaved" ELSE "phone"

\* The browser opens or reloads /customer/phone, with or without
\* phoneSaved=true: the loader, then the component mounts with an empty field
\* and its effect scheduled.
OpenPhonePage ==
    \E saved \in BOOLEAN, readOk \in BOOLEAN :
      LET to == PhoneLoader(user, customernumber, saved, readOk)
      IN /\ page' = to
         /\ phoneInput' = ""
         /\ effectPending' = (to \in {"phone", "phoneSaved"})
         /\ event' = Event("openPhone", "-", 0)
         /\ UNCHANGED <<orders, orderitems, menuPrice, customernumber, user,
                        last, accepts, createdat, boardVars, pageName,
                        catalog, orderItems, phoneNumber, pendingOrder,
                        draftOrders>>

\* The customer types into the field of the phone page; the effect depends
\* on that state and is scheduled again.
TypePhoneInput ==
    \E p \in PhoneInputs \ {phoneInput} :
      /\ page \in {"phone", "phoneSaved"}
      /\ ~effectPending
      /\ phoneInput' = p
      /\ effectPending' = TRUE
      /\ event' = Event("typeInput", "-", 0)
      /\ UNCHANGED <<orders, orderitems, menuPrice, customernumber, user,
                     last, accepts, createdat, boardVars, page, pageName,
                     catalog, orderItems, phoneNumber, pendingOrder,
                     draftOrders>>

\* The action of the phone page, and the navigation its redirect starts:
\* 401 / 400 / 500 leave the page as it is; on success the number is saved
\* and the loader runs for /customer/phone?phoneSaved=true.  The route is the
\* same, so the component stays mounted and its effect is not scheduled.
CapturePhone ==
    \E dbOk \in BOOLEAN, readOk \in BOOLEAN :
      /\ page \in {"phone", "phoneSaved"}
      /\ ~effectPending
      /\ IF user # NoUser /\ ~IsBlank(phoneInput) /\ PhoneRegexOk(phoneInput)
            /\ dbOk
         THEN /\ customernumber' = [customernumber EXCEPT ![user] = phoneInput]
              /\ page' = PhoneLoader(user, customernumber', TRUE, readOk)
              /\ last' = Answer("capture", "saved", 0, 0, 0, "-", "-")
         ELSE /\ UNCHANGED <<customernumber, page>>
              /\ last' = Answer("capture", "error", 0, 0, 0, "-", "-")
      /\ event' = Event("capture", "-", 0)
      /\ UNCHANGED <<orders, orderitems, menuPrice, user, accepts, createdat,
                     boardVars, pageName, catalog, orderItems, phoneNumber,
                     pendingOrder, phoneInput, effectPending, draftOrders>>

\* What processOrder gets back from fetch: the action's JSON, a non-OK
\* response, or a rejection.
Responses == {"json", "notok", "throws"}

\* The action answers success with its JSON, which reaches the page or is
\* lost on the way; a failed request may also come back as a non-OK response.
ResponsesFor(result) ==
    IF result = "success" THEN {"json", "throws"} ELSE Responses

\* Variant of DraftAfterProcessOrder: the draft is removed in every case.
DraftAlwaysRemoved(old, respond, result) == NoDraft

\* processOrder: sessionStorage.removeItem only when the JSON says success.
DraftAfterProcessOrder(old, respond, result) ==
    IF respond = "json" /\ result = "success" THEN NoDraft ELSE old

\* The effect of the phone page.  With phoneSaved=true in the URL it submits
\* the staged draft (processOrder: the order request, then the handling of
\* its response) or, without a draft, goes to the home page.
RunPhoneEffect ==
    /\ effectPending
    /\ effectPending' = FALSE
    /\ IF page = "phoneSaved" /\ pendingOrder # NoDraft
       THEN \E db \in DbInputs(user, pendingOrder.storeName, DbResults),
               respond \in Responses :
              LET path == pendingOrder.storeName
                  form == ProcessOrderForm(pendingOrder, phoneInput)
                  o == SubmitOutcome(user, path, form, customernumber, orders,
                                     orderitems, db, "ok")
              IN /\ respond \in ResponsesFor(o.last.result)
                 /\ InsertsOrder(user, path, db) => Len(orders) < MaxOrders
                 /\ orders' = o.orders
                 /\ orderitems' = o.orderitems
                 /\ last' = [o.last EXCEPT
                                !.cart = form.orderItems,
                                !.db = IF ReachesSave(user, path)
                                       THEN db ELSE "-"]
                 /\ draftOrders' = draftOrders + Len(o.orders) - Len(orders)
                 /\ pendingOrder' = DraftAfterProcessOrder(pendingOrder,
                                         respond, o.last.result)
                 /\ page' = IF respond = "json" /\ o.last.result = "success"
                            THEN "success" ELSE page
                 /\ event' = Event("processOrder", respond, 0)
       ELSE /\ page' = IF page = "phoneSaved" THEN "home" ELSE page
            /\ event' = Event("effect", "-", 0)
            /\ UNCHANGED <<orders, orderitems, last, pendingOrder,
                           draftOrders>>
    /\ createdat' = CreatedAt(createdat, orders', now)
    /\ UNCHANGED <<menuPrice, customernumber, user, accepts, boardVars,
                   pageName, catalog, orderItems, phoneNumber, phoneInput>>

(* ------------------- routes/owner.orders.tsx loader --------------------- *)

PAGE_SIZE == 20

\* A search parameter the URL does not carry.
NoParam == -1

\* new Date() with hours, minutes, seconds set to 0: the clock's origin.
StartOfToday == 0

\* Phone filters: none, and two that are part of a stored number each.
PhoneFilters == {"", "0-1", "0-2"}

\* String(row.phoneNumber ?? ""): a null phone reads as the empty string.
RowPhone(p) == IF p = NoPhone THEN "" ELSE p

\* s.includes(sub) / ilike %sub% on strings of digits and dashes.
Includes(s, sub) ==
    \E i \in 1..(Len(s) - Len(sub) + 1) : SubSeq(s, i, i + Len(sub) - 1) = sub

\* Math.max(1, Number(url.searchParams.get("page") || "1"))
PageOf(param) == IF param < 1 THEN 1 ELSE param

\* The rows both queries of the loader select: .eq("profile_id", user.id)
\* .gte("createdat", dateFrom).lte("createdat", dateTo), and ilike on the
\* phone number when a phone filter is given.
MatchingIds(os, cat, uid, phone, from, to) ==
    {k \in 1..Len(os) :
        /\ os[k].profile_id = uid
        /\ cat[k] >= from
        /\ cat[k] <= to
        /\ (phone = "" \/ Includes(RowPhone(os[k].phoneNumber), phone))}

RECURSIVE NewestFirst(_, _)
\* .order("createdat", { ascending: false })
NewestFirst(ids, cat) ==
    IF ids = {} THEN <<>>
    ELSE LET m == CHOOSE k \in ids :
                    \A j \in ids : cat[j] < cat[k] \/ (cat[j] = cat[k] /\ j <= k)
         IN <<m>> \o NewestFirst(ids \ {m}, cat)

\* Variant of Range: a range that starts beyond the last row gives the first
\* rows instead.
RangeFallsBack(rows, from, to) ==
    IF from >= Len(rows)
    THEN SubSeq(rows, 1, IF to - from + 1 < Len(rows)
                         THEN to - from + 1 ELSE Len(rows))
    ELSE SubSeq(rows, from + 1, IF to + 1 < Len(rows) THEN to + 1 ELSE Len(rows))

\* .range(from, to): the rows at the 0-based positions from..to that exist.
Range(rows, from, to) ==
    SubSeq(rows, from + 1, IF to + 1 < Len(rows) THEN to + 1 ELSE Len(rows))

\* The loader for owner uid at time t: the page of order ids, the count of
\* all matching rows, and the filters it used (dateFrom defaults to the start
\* of today, dateTo to the time of the request).
OrdersLoader(uid, os, cat, url, t) ==
    LET pg == PageOf(url.page)
        from == IF url.dateFrom = NoParam THEN StartOfToday ELSE url.dateFrom
        to == IF url.dateTo = NoParam THEN t ELSE url.dateTo
        ids == MatchingIds(os, cat, uid, url.phone, from, to)
        offset == (pg - 1) * PAGE_SIZE
    IN [orders |-> Range(NewestFirst(ids, cat), offset, offset + PAGE_SIZE - 1),
        totalCount |-> Cardinality(ids),
        page |-> pg,
        filters |-> [phone |-> url.phone, dateFrom |-> from, dateTo |-> to]]

(* ----------------- routes/owner.orders.tsx OwnerOrdersPage -------------- *)

\* The delay of the setTimeout that hides the notification, in milliseconds.
NotifyDelay == 10000

\* newOrderNotification is null.
NoNotification == [orderId |-> 0, items |-> 0, amount |-> 0]

\* The URL without search parameters.
PlainUrl ==
    [page |-> NoParam, phone |-> "", dateFrom |-> NoParam, dateTo |-> NoParam]

\* No dashboard tab is open.
ClosedDash ==
    [open |-> FALSE, profileId |-> NoUser, url |-> PlainUrl,
     orders |-> <<>>, totalCount |-> 0, page |-> 1,
     phone |-> "", dateFrom |-> StartOfToday, dateTo |-> StartOfToday,
     soundOn |-> FALSE, audio |-> FALSE,
     notification |-> NoNotification, notifiedAt |-> 0, openId |-> 0,
     loadedAt |-> 0]

\* The page as it mounts at time t on loader data d: the filter states start
\* from data.filters, sound is off, nothing is notified.  notifiedAt records
\* when the notification on display was set, loadedAt when the page loaded.
MountDash(uid, url, d, t) ==
    [open |-> TRUE, profileId |-> uid, url |-> url,
     orders |-> d.orders, totalCount |-> d.totalCount, page |-> d.page,
     phone |-> d.filters.phone, dateFrom |-> d.filters.dateFrom,
     dateTo |-> d.filters.dateTo,
     soundOn |-> FALSE, audio |-> FALSE,
     notification |-> NoNotification, notifiedAt |-> 0, openId |-> 0,
     loadedAt |-> t]

\* What happened in the dashboard tab: op, the order it was about, and a
\* flag (insert: the handler went on; notify: the chime was played).  The
\* sound button gives "soundOff", "armed" or "armFailed".
DashEvent(op, orderId, flag) == [op |-> op, orderId |-> orderId, flag |-> flag]

\* The owner opens /owner/orders.
OpenDashboard ==
    \E u \in Users :
      LET url == PlainUrl
      IN /\ dash' = MountDash(u, url,
                              OrdersLoader(u, orders, createdat, url, now),
                              now)
         /\ channel' = {}
         /\ handlers' = {}
         /\ timers' = {}
         /\ dashEvent' = DashEvent("load", 0, FALSE)
         /\ UNCHANGED <<orders, orderitems, menuPrice, customernumber, user,
                        last, accepts, clientVars, createdat, now, saving>>

\* applyFilters / goPage: window.location.search is set from the page number
\* and the filter states, and the page loads anew.
ReloadWithFilters ==
    \E p \in 1..MaxPage :
      LET url == [page |-> p, phone |-> dash.phone,
                  dateFrom |-> dash.dateFrom, dateTo |-> dash.dateTo]
      IN /\ dash.open
         /\ dash' = MountDash(dash.profileId, url,
                              OrdersLoader(dash.profileId, orders, createdat,
                                           url, now),
                              now)
         /\ channel' = {}
         /\ handlers' = {}
         /\ timers' = {}
         /\ dashEvent' = DashEvent("load", 0, FALSE)
         /\ UNCHANGED <<orders, orderitems, menuPrice, customernumber, user,
                        last, accepts, clientVars, createdat, now, saving>>

\* The phone filter input: setPhone.
SetPhone ==
    \E f \in PhoneFilters \ {dash.phone} :
      /\ dash.open
      /\ dash' = [dash EXCEPT !.phone = f]
      /\ dashEvent' = DashEvent("filter", 0, FALSE)
      /\ UNCHANGED <<orders, orderitems, menuPrice, customernumber, user, last,
                     accepts, clientVars, createdat, now, channel, handlers,
                     timers, saving>>

\* The two date inputs: setDateFrom / setDateTo with a time of today.
SetDateFrom ==
    \E t \in {StartOfToday, TickMs} \ {dash.dateFrom} :
      /\ dash.open
      /\ dash' = [dash EXCEPT !.dateFrom = t]
      /\ dashEvent' = DashEvent("filter", 0, FALSE)
      /\ UNCHANGED <<orders, orderitems, menuPrice, customernumber, user, last,
                     accepts, clientVars, createdat, now, channel, handlers,
                     timers, saving>>

SetDateTo ==
    \E t \in {TickMs, MaxTicks * TickMs} \ {dash.dateTo} :
      /\ dash.open
      /\ dash' = [dash EXCEPT !.dateTo = t]
      /\ dashEvent' = DashEvent("filter", 0, FALSE)
      /\ UNCHANGED <<orders, orderitems, menuPrice, customernumber, user, last,
                     accepts, clientVars, createdat, now, channel, handlers,
                     timers, saving>>

\* Variant of SoundAfterToggle: a rejected play() still switches sound on.
SoundAfterToggleAnyway(on, playOk) == ~on

\* toggleSound: off when it was on; else on when audio.play() resolved, and
\* still off when it was rejected.
SoundAfterToggle(on, playOk) == IF on THEN FALSE ELSE playOk

\* The sound button.  Switching on creates the Audio element when there is
\* none and plays it once.
ToggleSound ==
    \E playOk \in BOOLEAN :
      /\ dash.open
      /\ dash' = [dash EXCEPT
                     !.soundOn = SoundAfterToggle(dash.soundOn, playOk),
                     !.audio = IF dash.soundOn THEN dash.audio ELSE TRUE]
      /\ dashEvent' = DashEvent(IF dash.soundOn THEN "soundOff"
                                ELSE IF playOk THEN "armed" ELSE "armFailed",
                                0, FALSE)
      /\ UNCHANGED <<orders, orderitems, menuPrice, customernumber, user, last,
                     accepts, clientVars, createdat, now, channel, handlers,
                     timers, saving>>

\* The "View Now" button of the banner.
ViewNow ==
    /\ dash.open
    /\ dash.notification # NoNotification
    /\ dash' = [dash EXCEPT !.openId = dash.notification.orderId,
                            !.notification = NoNotification]
    /\ dashEvent' = DashEvent("view", dash.notification.orderId, FALSE)
    /\ UNCHANGED <<orders, orderitems, menuPrice, customernumber, user, last,
                   accepts, clientVars, createdat, now, channel, handlers,
                   timers, saving>>

\* const inRange = createdIso >= dateFrom && createdIso <= dateTo
InRange(created, from, to) == created >= from /\ created <= to

\* const phoneOk = !phone || String(row.phoneNumber ?? "").includes(phone)
PhoneOk(filter, phone) == filter = "" \/ Includes(phone, filter)

\* Variant of Notifies: the date range is not looked at.
NotifiesAnyDate(d, created, phone) == PhoneOk(d.phone, phone)

\* if (inRange && phoneOk), on the filter states of the mounted page.
Notifies(d, created, phone) ==
    InRange(created, d.dateFrom, d.dateTo) /\ PhoneOk(d.phone, phone)

\* The INSERT handler, up to its await: an event of the channel (filter
\* profile_id=eq.<profileId>) is taken; when the row passes the filters the
\* handler sends its orderitem query and waits, holding the soundOn of the
\* render it was created in.
ReceiveInsert ==
    \E id \in channel :
      LET go == Notifies(dash, createdat[id], RowPhone(orders[id].phoneNumber))
      IN /\ channel' = channel \ {id}
         /\ handlers' = IF go
                        THEN handlers \cup {[orderId |-> id,
                                             soundOn |-> dash.soundOn]}
                        ELSE handlers
         /\ dashEvent' = DashEvent("insert", id, go)
         /\ UNCHANGED <<orders, orderitems, menuPrice, customernumber, user,
                        last, accepts, clientVars, createdat, now, dash,
                        timers, saving>>

\* The INSERT handler after its await: the query answers with the orderitem
\* rows the order has now (no data when it failed); the notification is set,
\* the timer that hides it is started, the chime is played when sound was on
\* and there is an Audio element, and the loader runs again for the URL.
FinishInsert ==
    \E h \in handlers, readOk \in BOOLEAN :
      LET d == OrdersLoader(dash.profileId, orders, createdat, dash.url, now)
          n == [orderId |-> h.orderId,
                items |-> IF readOk
                          THEN Len(ItemsOfOrder(orderitems, h.orderId))
                          ELSE 0,
                amount |-> orders[h.orderId].totalAmount]
      IN /\ handlers' = handlers \ {h}
         /\ dash' = [dash EXCEPT !.notification = n, !.notifiedAt = now,
                                 !.orders = d.orders,
                                 !.totalCount = d.totalCount,
                                 !.page = d.page]
         /\ timers' = timers \cup {now + NotifyDelay}
         /\ dashEvent' = DashEvent("notify", h.orderId,
                                   h.soundOn /\ dash.audio)
         /\ UNCHANGED <<orders, orderitems, menuPrice, customernumber, user,
                        last, accepts, clientVars, createdat, now, channel,
                        saving>>

\* A timer started by the handler runs: setNewOrderNotification(null).
TimerFires ==
    \E t \in timers :
      /\ t <= now
      /\ timers' = timers \ {t}
      /\ dash' = [dash EXCEPT !.notification = NoNotification]
      /\ dashEvent' = DashEvent("timer", 0, FALSE)
      /\ UNCHANGED <<orders, orderitems, menuPrice, customernumber, user, last,
                     accepts, clientVars, createdat, now, channel, handlers,
                     saving>>

\* Time passes; a timer that is due runs before the clock moves on.
Tick ==
    /\ now < MaxTicks * TickMs
    /\ \A t \in timers : t > now
    /\ now' = now + TickMs
    /\ dashEvent' = DashEvent("tick", 0, FALSE)
    /\ UNCHANGED <<orders, orderitems, menuPrice, customernumber, user, last,
                   accepts, clientVars, createdat, dash, channel, handlers,
                   timers, saving>>

(* ---------------- routes/$name.tsx saveOrder, step by step -------------- *)

\* No saveOrder call is between its two inserts.
IdleSaving == [pc |-> "idle", orderId |-> 0, cart |-> <<>>, store |-> "-"]

\* An order request of the order form up to the order insert of saveOrder
\* (requests that end before saveOrder are those of SubmitOrderForm).  The
\* datastore stamps createdat and publishes the INSERT to the channels whose
\* filter the row passes.
SaveOrderInsert ==
    \E path \in PathNames :
      \E form \in LeanFormsOf(path), orderOk \in BOOLEAN :
        LET pid == FindProfileByName(path)
            os2 == InsertOrder(orders, OrderPhone(form, customernumber, user),
                               ParseInt(form.totalAmount), pid)
        IN /\ saving.pc = "idle"
           /\ ReachesSave(user, path)
           /\ Len(orders) < MaxOrders
           /\ IF orderOk
              THEN /\ orders' = os2
                   /\ saving' = [pc |-> "ordered", orderId |-> Len(os2),
                                 cart |-> form.orderItems, store |-> pid]
                   /\ channel' = IF dash.open /\ dash.profileId = pid
                                 THEN channel \cup {Len(os2)} ELSE channel
                   /\ UNCHANGED last
              ELSE /\ last' = [ProcessingFailed(pid) EXCEPT
                                  !.cart = form.orderItems,
                                  !.db = "orderFails"]
                   /\ UNCHANGED <<orders, saving, channel>>
           /\ createdat' = CreatedAt(createdat, orders', now)
           /\ dashEvent' = DashEvent("server", 0, FALSE)
           /\ UNCHANGED <<orderitems, menuPrice, customernumber, user,
                          accepts, clientVars, now, dash, handlers, timers>>

\* The orderitem insert of saveOrder and the rest of the request.
SaveOrderItems ==
    \E itemsOk \in BOOLEAN :
      /\ saving.pc = "ordered"
      /\ orderitems' = IF itemsOk
                       THEN orderitems \o OrderItemRows(saving.cart,
                                                        saving.orderId)
                       ELSE orderitems
      /\ last' = IF itemsOk
                 THEN [Answer("submit", ResultAfterStoreHook("ok"),
                              saving.orderId, 0, StoreHookAttempts("ok"),
                              "ok", saving.store)
                         EXCEPT !.cart = saving.cart, !.db = "ok"]
                 ELSE [ProcessingFailed(saving.store) EXCEPT
                         !.cart = saving.cart, !.db = "itemsFail"]
      /\ saving' = IdleSaving
      /\ dashEvent' = DashEvent("server", saving.orderId, itemsOk)
      /\ UNCHANGED <<orders, menuPrice, customernumber, user, accepts,
                     clientVars, createdat, now, dash, channel, handlers,
                     timers>>

(* --------------------------- specification ------------------------------ *)

Init ==
    /\ orders = <<>>
    /\ orderitems = <<>>
    /\ menuPrice = [m1 |-> 8, m2 |-> 2, m3 |-> 2]
    /\ customernumber = [u \in Users |-> NoPhone]
    /\ user = NoUser
    /\ last = Answer("init", "-", 0, 0, 0, "-", "-")
    /\ accepts = [r \in Requests |-> IdleAccept]
    /\ page = "home"
    /\ pageName = "a"
    /\ catalog = [m1 |-> 8, m2 |-> 2, m3 |-> 2]
    /\ orderItems = <<>>
    /\ phoneNumber = ""
    /\ pendingOrder = NoDraft
    /\ phoneInput = ""
    /\ effectPending = FALSE
    /\ draftOrders = 0
    /\ event = Event("none", "-", 0)
    /\ createdat = <<>>
    /\ now = 0
    /\ dash = ClosedDash
    /\ channel = {}
    /\ handlers = {}
    /\ timers = {}
    /\ saving = IdleSaving
    /\ dashEvent = DashEvent("none", 0, FALSE)

\* Every request handler; submissions through the order form.
Next ==
    \/ SubmitOrderForm
    \/ AcceptOrder
    \/ EditMenuItem
    \/ UpdatePhoneNumber
    \/ Login
    \/ Logout

Spec == Init /\ [][Next]_vars

\* The handlers of the store page and of phone capture; submissions with
\* every form and every answer of the datastore.
NextSubmit ==
    \/ SubmitOrder
    \/ UpdatePhoneNumber
    \/ Login
    \/ Logout

SpecSubmit == Init /\ [][NextSubmit]_vars

\* Accept requests running step by step, next to order submissions.
NextAccept ==
    \/ SubmitOrderForm
    \/ Login
    \/ BeginAccept
    \/ AcceptUpdateStep
    \/ AcceptNotifyStep

SpecAccept == Init /\ [][NextAccept]_vars

\* The cart of the store page, next to menu edits by the owner.
NextCart ==
    \/ OpenStorePage
    \/ RevalidateStorePage
    \/ IncreaseQuantity
    \/ DecreaseQuantity
    \/ EditMenuItem
    \/ Login

SpecCart == Init /\ [][NextCart]_vars

\* Staging a draft: the store page and the OAuth round trip.
NextDraft ==
    \/ OpenStorePage
    \/ FillCart
    \/ TypePhoneNumber
    \/ HandleKakaoLogin
    \/ OAuthCallback
    \/ SavePhoneOnStorePage
    \/ HandleSubmit
    \/ Logout

SpecDraft == Init /\ [][NextDraft]_vars

\* Recovering a draft: staging it, then the phone page with the order
\* requests it sends.
NextPhone ==
    \/ OpenStorePage
    \/ FillCart
    \/ HandleKakaoLogin
    \/ OAuthCallback
    \/ OpenPhonePage
    \/ TypePhoneInput
    \/ CapturePhone
    \/ RunPhoneEffect

SpecPhone == Init /\ [][NextPhone]_vars

\* Recovering a draft that was staged with or without a phone number typed
\* into the order form.
NextAutoOrder ==
    \/ OpenStorePage
    \/ FillCart
    \/ TypePhoneNumber
    \/ HandleKakaoLogin
    \/ OAuthCallback
    \/ OpenPhonePage
    \/ TypePhoneInput
    \/ CapturePhone
    \/ RunPhoneEffect

SpecAutoOrder == Init /\ [][NextAutoOrder]_vars

\* The notifications of the owner's dashboard under its filters, next to
\* order requests running step by step, within one tick of the clock.
NextDash ==
    \/ Login
    \/ SaveOrderInsert
    \/ SaveOrderItems
    \/ OpenDashboard
    \/ SetPhone
    \/ SetDateFrom
    \/ ReceiveInsert
    \/ FinishInsert

SpecDash == Init /\ [][NextDash]_vars

\* The notifications of the dashboard while time passes.
NextTimers ==
    \/ Login
    \/ SaveOrderInsert
    \/ SaveOrderItems
    \/ OpenDashboard
    \/ SetDateTo
    \/ ViewNow
    \/ ReceiveInsert
    \/ FinishInsert
    \/ TimerFires
    \/ Tick

SpecTimers == Init /\ [][NextTimers]_vars

\* The sound switch of the dashboard, next to order requests.
NextSound ==
    \/ Login
    \/ SaveOrderInsert
    \/ SaveOrderItems
    \/ OpenDashboard
    \/ ToggleSound
    \/ ReceiveInsert
    \/ FinishInsert

SpecSound == Init /\ [][NextSound]_vars

\* The pages of the order list, with filters, next to order requests within
\* one tick of the clock.
NextPages ==
    \/ Login
    \/ SubmitOrderForm
    \/ OpenDashboard
    \/ SetPhone
    \/ SetDateFrom
    \/ ReloadWithFilters

SpecPages == Init /\ [][NextPages]_vars

(* ------------------------------ claims ---------------------------------- *)

Statuses == {"PENDING", "ACCEPT", "CANCEL"}

\* The step is an order request that was answered with success.
SubmitSucceeded == last'.op = "submit" /\ last'.result = "success"

\* C1: every persisted order has status PENDING or ACCEPT, no order row
\* disappears, and no step of any handler takes an order whose status is
\* ACCEPT to another status.
C1_AcceptIsFinal ==
    /\ [](\A k \in 1..Len(orders) : orders[k].status \in {"PENDING", "ACCEPT"})
    /\ [][/\ Len(orders') >= Len(orders)
          /\ \A k \in 1..Len(orders) :
                orders[k].status = "ACCEPT" => orders'[k].status = "ACCEPT"]_vars

\* An accepted order is in the datastore when a later submission succeeds.
C1_Witness ==
    /\ last.op = "submit" /\ last.result = "success"
    /\ \E k \in 1..Len(orders) : orders[k].status = "ACCEPT"

\* C2: an order request answered with success has appended exactly one order
\* row, PENDING and of the store the path resolves to, has appended exactly
\* one orderitem row per cart line with that line's item id, quantity and
\* price and the new order's id, has touched no other row, and returns the id
\* of the new order.
C2_SuccessPersistsOrderAndItems ==
    [][SubmitSucceeded
         => LET cart == last'.cart
                id == Len(orders) + 1
            IN /\ Len(orders') = id
               /\ SubSeq(orders', 1, Len(orders)) = orders
               /\ orders'[id].order_id = id
               /\ orders'[id].status = "PENDING"
               /\ last'.store \in Users
               /\ orders'[id].profile_id = last'.store
               /\ last'.orderId = id
               /\ Len(orderitems') = Len(orderitems) + Len(cart)
               /\ SubSeq(orderitems', 1, Len(orderitems)) = orderitems
               /\ \A k \in 1..Len(cart) :
                    LET row == orderitems'[Len(orderitems) + k]
                    IN /\ row.orderId = id
                       /\ row.menuItemId = cart[k].id
                       /\ row.quantity = cart[k].quantity
                       /\ row.price = cart[k].price]_vars

\* A second order, with a cart of two lines, was saved and answered with success.
C2_Witness ==
    /\ last.op = "submit" /\ last.result = "success" /\ last.orderId = 2
    /\ Len(ItemsOfOrder(orderitems, 2)) = 2

\* C3: when an order request of either client path (the order form, or the
\* automatic request for a staged draft) is answered with success, the new
\* order's totalAmount is the sum of price x quantity over its orderitem rows;
\* and in every state every order that has orderitem rows has that total.
C3_TotalIsSumOfItems ==
    /\ [](\A k \in 1..Len(orders) :
            ItemsOfOrder(orderitems, k) # <<>>
              => orders[k].totalAmount = SumRows(ItemsOfOrder(orderitems, k)))
    /\ [][SubmitSucceeded
            => /\ ItemsOfOrder(orderitems', last'.orderId) # <<>>
               /\ orders'[last'.orderId].totalAmount
                    = SumRows(ItemsOfOrder(orderitems', last'.orderId))]_vars

\* An automatic request for a draft staged without a phone number succeeded
\* (only that path saves an order with a blank phone number).
C3_Witness ==
    /\ last.op = "submit" /\ last.result = "success"
    /\ orders[last.orderId].phoneNumber = ""
    /\ orders[last.orderId].totalAmount = 12

\* C4: orderitem rows only ever reference an order row that exists; and when
\* the orderitem insert of a request fails, the order row inserted by the
\* same request stays (PENDING, no orderitem rows, nothing rolled back) and
\* the caller gets the generic failure without an order id.
C4_ItemFailureLeavesOrder ==
    /\ [](\A k \in 1..Len(orderitems) : orderitems[k].orderId \in 1..Len(orders))
    /\ [][(last'.op = "submit" /\ last'.db = "itemsFail")
            => LET id == Len(orders) + 1
               IN /\ Len(orders') = id
                  /\ SubSeq(orders', 1, Len(orders)) = orders
                  /\ orders'[id].status = "PENDING"
                  /\ orderitems' = orderitems
                  /\ ItemsOfOrder(orderitems', id) = <<>>
                  /\ last'.result = "failed"
                  /\ last'.orderId = 0
                  /\ last'.hooks = 0]_vars

\* A request failed after its order row was inserted: the row has no items.
C4_Witness ==
    /\ last.op = "submit" /\ last.result = "failed"
    /\ last.db = "itemsFail"
    /\ Len(orders) >= 1
    /\ ItemsOfOrder(orderitems, Len(orders)) = <<>>
    /\ orders[Len(orders)].status = "PENDING"

\* C5: an order request without an authenticated caller inserts no order row
\* and no orderitem row, makes no webhook POST, and is answered with the
\* login-required result, not the generic failure.
C5_UnauthenticatedSubmitRequiresAuth ==
    [][(last'.op = "submit" /\ user = NoUser)
         => /\ orders' = orders
            /\ orderitems' = orderitems
            /\ last'.hooks = 0
            /\ last'.result = "requiresAuth"
            /\ last'.orderId = 0]_vars

\* An unauthenticated order request was answered while an order exists.
C5_Witness ==
    /\ last.op = "submit" /\ last.result = "requiresAuth"
    /\ user = NoUser
    /\ Len(orders) >= 1

\* C6: an order request whose path segment resolves to no profile inserts no
\* order row and no orderitem row and is answered with a StoreNotFound
\* (404-equivalent) result.
C6_UnresolvedStoreIsNotFound ==
    [][(last'.op = "submit" /\ last'.store = NoProfile)
         => /\ orders' = orders
            /\ orderitems' = orderitems
            /\ last'.result = "notFound"]_vars

\* C7: once both inserts of an order request are done, whatever the webhook
\* stage meets (no URL, an OK answer, a non-OK answer, a rejected fetch), the
\* request is answered with success and the id of the new order, at most one
\* POST was made (none without a URL), and the order row and its orderitem
\* rows are in the datastore.
C7_StoreWebhookIsBestEffort ==
    [][(last'.op = "submit" /\ last'.db = "ok")
         => LET id == Len(orders) + 1
            IN /\ last'.hook \in HookResults
               /\ last'.result = "success"
               /\ last'.orderId = id
               /\ last'.hooks <= 1
               /\ (last'.hook = "unset" => last'.hooks = 0)
               /\ Len(orders') = id
               /\ orders'[id].status = "PENDING"
               /\ Len(ItemsOfOrder(orderitems', id)) = Len(last'.cart)]_vars

\* The webhook POST of an order request was rejected and the request was
\* answered with success.
C7_Witness ==
    /\ last.op = "submit" /\ last.hook = "throws"
    /\ last.result = "success" /\ last.hooks = 1
    /\ Len(ItemsOfOrder(orderitems, last.orderId)) = 2

\* C8: an accept whose webhook POST throws or is answered non-OK still ends
\* with the redirect to the order list.
C8_AcceptWebhookFailureSwallowed ==
    (last.op = "accept" /\ last.hook \in {"throws", "notok"})
        => last.result = "redirect"

\* The step is an accept, by a caller signed in as one store, of an order of
\* another store, and the datastore executed the update.
CrossTenantAccept ==
    /\ last'.op = "accept"
    /\ last'.db = "ok"
    /\ user \in Users
    /\ last'.orderId \in 1..Len(orders)
    /\ orders[last'.orderId].profile_id # user

\* C9: an accept by a caller authenticated as one store, naming an order of
\* another store, changes zero rows, leaves every field of every order row as
\* it was, and raises no error: the action ends with its redirect.
C9_CrossTenantAcceptIsNoOp ==
    [][CrossTenantAccept
         => /\ last'.rows = 0
            /\ orders' = orders
            /\ orderitems' = orderitems
            /\ last'.result = "redirect"]_vars

\* C10: an accept whose update matches zero rows changes no row, raises no
\* error and makes no POST of the order-accepted webhook.
C10_ZeroRowAcceptSendsNoWebhook ==
    [][(last'.op = "accept" /\ last'.db = "ok" /\ last'.rows = 0)
         => /\ orders' = orders
            /\ last'.result = "redirect"
            /\ last'.hooks = 0]_vars

\* Request r is an accept of an order of the caller's own store.
OwnerAccept(r) ==
    /\ accepts[r].orderId \in 1..Len(orders)
    /\ orders[accepts[r].orderId].profile_id = accepts[r].uid

\* C11: of two accept requests by the owner on the same order, run in any
\* interleaving of their steps, each matches the order with its update (the
\* duplicate is not detected), the order is ACCEPT from the first update on,
\* each makes its own webhook POST, and each ends with the redirect, not with
\* an error.
C11_DuplicateAcceptsBothComplete ==
    \A r \in Requests :
        (OwnerAccept(r) /\ accepts[r].db = "ok")
            => /\ orders[accepts[r].orderId].status = "ACCEPT"
               /\ accepts[r].rows = 1
               /\ accepts[r].pc = "done"
                    => /\ accepts[r].hooks =
                            (IF accepts[r].hook = "unset" THEN 0 ELSE 1)
                       /\ accepts[r].result = "redirect"

\* The step is an accept, by the owner of the order's store, that the
\* datastore executed.
OwnerAcceptStep ==
    /\ last'.op = "accept"
    /\ last'.db = "ok"
    /\ user \in Users
    /\ last'.orderId \in 1..Len(orders)
    /\ orders[last'.orderId].profile_id = user

\* C12: an accept by the owner of the order's store matches that one row and
\* sets its status to ACCEPT; every other field of the order, every other
\* order and every orderitem row are as they were.
C12_AcceptChangesOnlyStatus ==
    [][OwnerAcceptStep
         => /\ last'.rows = 1
            /\ orders' = [orders EXCEPT ![last'.orderId].status = "ACCEPT"]
            /\ orderitems' = orderitems]_vars

\* The owner accepted one of two orders of their store; the other is still
\* PENDING.
C12_Witness ==
    /\ last.op = "accept" /\ last.db = "ok" /\ last.rows = 1
    /\ Len(orders) = 2
    /\ orders[1].profile_id = orders[2].profile_id
    /\ orders[last.orderId].status = "ACCEPT"
    /\ orders[3 - last.orderId].status = "PENDING"

\* C13: no step of any handler (menu edit, accept, submission, phone capture)
\* changes or removes an orderitem row, so a row keeps the price it was
\* inserted with; and the items of the accept payload are the order's rows
\* with their stored price, whatever the menu item costs now.
C13_PriceSnapshotImmutable ==
    /\ [][/\ Len(orderitems') >= Len(orderitems)
          /\ \A k \in 1..Len(orderitems) : orderitems'[k] = orderitems[k]]_vars
    /\ []((last.op = "accept" /\ last.db = "ok")
            => LET rows == ItemsOfOrder(orderitems, last.orderId)
               IN /\ Len(last.cart) = Len(rows)
                  /\ \A k \in 1..Len(rows) :
                        /\ last.cart[k].id = rows[k].menuItemId
                        /\ last.cart[k].price = rows[k].price
                        /\ last.cart[k].quantity = rows[k].quantity)

\* An order was accepted after the price of one of its menu items was
\* changed: the stored row and the payload carry the old price.
C13_Witness ==
    /\ last.op = "accept" /\ last.db = "ok" /\ last.rows = 1
    /\ \E k \in 1..Len(last.cart) :
          /\ menuPrice[last.cart[k].id] # last.cart[k].price
          /\ \E j \in 1..Len(orderitems) :
                /\ orderitems[j].orderId = last.orderId
                /\ orderitems[j].menuItemId = last.cart[k].id
                /\ orderitems[j].price = last.cart[k].price

\* C14: every line of the cart has quantity >= 1 and no two lines have the
\* same menu item id; a decrease on a line of quantity 1 removes the line, a
\* decrease on a line of a larger quantity takes one off, and a decrease on
\* an item that has no line leaves the cart as it was.
C14_QuantityFloor ==
    /\ [](\A k \in 1..Len(orderItems) :
            /\ orderItems[k].quantity >= 1
            /\ \A j \in 1..Len(orderItems) :
                  orderItems[j].id = orderItems[k].id => j = k)
    /\ [][(event' # event /\ event'.op = "decrease")
            => /\ event'.before = QuantityOf(orderItems, event'.item)
               /\ event'.before = 0 => orderItems' = orderItems
               /\ event'.before = 1
                    => /\ QuantityOf(orderItems', event'.item) = 0
                       /\ Len(orderItems') = Len(orderItems) - 1
               /\ event'.before > 1
                    => QuantityOf(orderItems', event'.item)
                          = event'.before - 1]_vars

\* A decrease took the line of quantity 1 out of a cart that has another line.
C14_Witness ==
    /\ event.op = "decrease" /\ event.before = 1
    /\ QuantityOf(orderItems, event.item) = 0
    /\ Len(orderItems) = 1

\* The price of the cart line of menu item m.
PriceOf(lines, m) ==
    lines[CHOOSE k \in 1..Len(lines) : lines[k].id = m].price

\* C15: the cart total is the sum of price x quantity over the lines and is
\* never below zero; an increase of an existing line keeps the line's price
\* and adds that price to the total, whatever the catalog says now; an
\* increase of a new item adds the catalog price; a decrease takes the line's
\* price off the total.
C15_CartTotalFollowsLines ==
    /\ [](/\ CartTotal(orderItems) = SumRows(orderItems)
          /\ CartTotal(orderItems) >= 0)
    /\ [][/\ (event' # event /\ event'.op = "increase" /\ event'.before > 0)
             => /\ PriceOf(orderItems', event'.item)
                     = PriceOf(orderItems, event'.item)
                /\ CartTotal(orderItems')
                     = CartTotal(orderItems) + PriceOf(orderItems, event'.item)
          /\ (event' # event /\ event'.op = "increase" /\ event'.before = 0)
             => CartTotal(orderItems')
                  = CartTotal(orderItems) + catalog[event'.item]
          /\ (event' # event /\ event'.op = "decrease" /\ event'.before > 0)
             => CartTotal(orderItems')
                  = CartTotal(orderItems) - PriceOf(orderItems, event'.item)
         ]_vars

\* An existing line was increased after the page loaded another price for its
\* menu item: the line still has the price of its first addition.
C15_Witness ==
    /\ event.op = "increase" /\ event.before >= 1
    /\ PriceOf(orderItems, event.item) # catalog[event.item]
    /\ CartTotal(orderItems)
         = PriceOf(orderItems, event.item) * (event.before + 1)

\* C16: a phone number saved through the phone page while a draft is staged
\* takes the flow on to the automatic submission of the draft: the page with
\* phoneSaved=true is on display and its effect is about to read the draft back
\* (from where the flow ends with the order created and the draft removed).
C16_DraftRecoveryCompletes ==
    (/\ event.op = "capture"
     /\ last.op = "capture" /\ last.result = "saved"
     /\ pendingOrder # NoDraft)
        => (page = "phoneSaved" /\ effectPending)

\* C17: at most one order row is inserted from one staged draft, whatever
\* the customer does on the phone page (typing after a failed attempt,
\* reloading) and however the order requests end.
C17_DraftSubmittedAtMostOnce == draftOrders <= 1

\* The step is a run of processOrder, and the submission failed: fetch was
\* rejected, the response was not OK, or the JSON says success = false.
AutoSubmitFailed ==
    /\ event'.op = "processOrder"
    /\ effectPending /\ ~effectPending'
    /\ page = "phoneSaved" /\ pendingOrder # NoDraft
    /\ (event'.item # "json" \/ last'.result # "success")

\* C18: a failed automatic submission leaves the staged draft in storage as
\* it was (same lines, total, store and phone number), with the phone page
\* still on display, so that a retry posts the same items, total and store.
C18_FailedAutoSubmitKeepsDraft ==
    [][AutoSubmitFailed
         => /\ pendingOrder' = pendingOrder
            /\ pendingOrder'.orderItems = last'.cart
            /\ page' = "phoneSaved"]_vars

\* An automatic submission failed after its order row was inserted; the draft
\* is still staged.
C18_Witness ==
    /\ event.op = "processOrder" /\ last.op = "submit"
    /\ last.result = "failed" /\ last.db = "itemsFail"
    /\ Len(orders) >= 1
    /\ pendingOrder # NoDraft
    /\ pendingOrder.orderItems = last.cart

\* C19: when handleKakaoLogin sends the browser to the identity provider (and
\* when it fails to), a non-empty cart has been staged as the draft: the
\* cart's lines, their total, the name of the store page and the phone field's
\* content, or null for a blank field; with an empty cart the storage is as
\* it was.
C19_DraftStagedBeforeRedirect ==
    [][(event'.op = "kakaoLogin" /\ page = "store" /\ user = NoUser
          /\ last' = last /\ orderItems' = orderItems)
         => IF orderItems # <<>>
            THEN /\ pendingOrder'.orderItems = orderItems
                 /\ pendingOrder'.totalAmount = SumRows(orderItems)
                 /\ pendingOrder'.storeName = pageName
                 /\ pendingOrder'.phoneNumber =
                        (IF phoneNumber = "" THEN NoPhone ELSE phoneNumber)
            ELSE pendingOrder' = pendingOrder]_vars

\* The browser is at the identity provider, sent there with an empty cart
\* while the draft of an earlier login attempt, staged with a phone number,
\* is still in storage.
C19_Witness ==
    /\ event.op = "kakaoLogin" /\ page = "idp"
    /\ orderItems = <<>>
    /\ pendingOrder # NoDraft
    /\ pendingOrder.phoneNumber = TypedPhone
    /\ pendingOrder.totalAmount = 12

\* C20: when the OAuth round trip has brought the customer, now signed in,
\* back to the store page, a staged draft has been read: the cart holds the
\* draft's lines, so that the order can be completed without selecting the
\* items again.
C20_DraftReadAfterRoundTrip ==
    (/\ event.op = "callback"
     /\ page = "store"
     /\ user \in Users
     /\ pendingOrder # NoDraft)
        => orderItems = pendingOrder.orderItems

\* C28: an order request reaches the order-created webhook stage, and so
\* makes a POST, only when its order insert and its orderitem insert both
\* succeeded in that same request, and the order id it sends is the id of the
\* order row just inserted; a request that is not answered with success (no
\* user, store not resolved, order insert or orderitem insert failed) does
\* not reach the stage and makes no POST.
C28_WebhookOnlyAfterBothInserts ==
    [][last'.op = "submit"
         => /\ last'.hooks > 0 => last'.hook \in {"ok", "notok", "throws"}
            /\ last'.hook # "-"
                 => /\ last'.result = "success"
                    /\ last'.db = "ok"
                    /\ last'.store \in Users
                    /\ Len(orders') = Len(orders) + 1
                    /\ last'.orderId = Len(orders')
                    /\ orders'[last'.orderId].order_id = last'.orderId
                    /\ orderitems'
                         = orderitems \o OrderItemRows(last'.cart, last'.orderId)
            /\ last'.result # "success" => last'.hooks = 0 /\ last'.hook = "-"]_vars

\* The webhook was posted for order 2 after an earlier request had failed at
\* its orderitem insert and left order 1 without items.
C28_Witness ==
    /\ last.op = "submit" /\ last.hooks = 1 /\ last.orderId = 2
    /\ ItemsOfOrder(orderitems, 1) = <<>>
    /\ ItemsOfOrder(orderitems, 2) # <<>>

\* The step is a run of processOrder that created an order, for a customer
\* whose profile holds a saved phone number; the field of the phone page is
\* blank or holds that number.
AutoSubmitWithSavedPhone ==
    /\ event'.op = "processOrder"
    /\ effectPending /\ ~effectPending'
    /\ page = "phoneSaved" /\ pendingOrder # NoDraft
    /\ last'.op = "submit" /\ last'.result = "success"
    /\ user \in Users
    /\ customernumber[user] # NoPhone
    /\ phoneInput \in {"", customernumber[user]}

\* C26: the order created by an automatic submission carries the phone
\* number saved in the customer's profile, whatever phone number the staged
\* draft was written with.
C26_AutoOrderCarriesSavedPhone ==
    [][AutoSubmitWithSavedPhone
         => orders'[last'.orderId].phoneNumber = customernumber[user]]_vars

\* C27: a staged draft leaves the storage only in a step in which an order
\* request built from it (the automatic request of the phone page, or the
\* order form whose cart handleSubmit has just staged) was answered with
\* success and inserted its order; saving a phone number on the store page,
\* logging out, a failed submission or a reload leave it staged.
C27_DraftRemovedOnlyAfterSuccess ==
    [][(pendingOrder # NoDraft /\ pendingOrder' = NoDraft)
         => /\ event'.op \in {"submit", "processOrder"}
            /\ last'.op = "submit" /\ last'.result = "success"
            /\ Len(orders') = Len(orders) + 1
            /\ last'.cart \in {pendingOrder.orderItems, orderItems}]_vars

\* The step is the dashboard taking an INSERT event from its channel.
InsertDelivered == dashEvent'.op = "insert" /\ channel' # channel

\* The step is an INSERT handler of the dashboard going on after its query.
InsertNotified == dashEvent'.op = "notify" /\ handlers' # handlers

\* C21: an INSERT event taken by the dashboard is about an order of the
\* dashboard's store; its handler goes on to the notification exactly when
\* the order's createdat lies within [dateFrom, dateTo] of the page and the
\* phone filter is empty or part of the order's phone number, and otherwise
\* leaves the page as it was; a handler that goes on sets the notification
\* for that order with its total and fetches the list again; and nothing
\* else sets a notification.
C21_NotifiesExactlyWithinFilters ==
    /\ [][InsertDelivered
            => LET id == dashEvent'.orderId
               IN /\ id \in channel
                  /\ orders[id].profile_id = dash.profileId
                  /\ dashEvent'.flag
                       <=> /\ createdat[id] >= dash.dateFrom
                           /\ createdat[id] <= dash.dateTo
                           /\ (dash.phone = ""
                                 \/ Includes(orders[id].phoneNumber, dash.phone))
                  /\ dashEvent'.flag
                       <=> \E h \in handlers' \ handlers : h.orderId = id
                  /\ ~dashEvent'.flag
                       => dash' = dash /\ handlers' = handlers
                            /\ timers' = timers]_vars
    /\ [][InsertNotified
            => LET id == dashEvent'.orderId
               IN /\ \E h \in handlers \ handlers' : h.orderId = id
                  /\ dash'.notification.orderId = id
                  /\ dash'.notification.amount = orders[id].totalAmount
                  /\ dash'.orders
                       = OrdersLoader(dash.profileId, orders, createdat,
                                      dash.url, now).orders]_vars
    /\ [][(dash'.notification # dash.notification
             /\ dash'.notification # NoNotification)
            => InsertNotified]_vars

\* An INSERT event was dropped by the phone filter while the notification of
\* an earlier order is on display.
C21_Witness ==
    /\ dashEvent.op = "insert" /\ ~dashEvent.flag
    /\ dash.phone = "0-2"
    /\ dash.notification # NoNotification

\* C22: a notification on display is hidden by a timer no earlier than
\* NotifyDelay after it was set, and is not on display later than that,
\* however the INSERT events follow one another.
C22_NotificationExpiresAfterDelay ==
    /\ [](dash.notification # NoNotification
            => now <= dash.notifiedAt + NotifyDelay)
    /\ [][(/\ dashEvent'.op = "timer"
           /\ timers' # timers
           /\ dash.notification # NoNotification)
            => now >= dash.notifiedAt + NotifyDelay]_vars

\* The page was opened without search parameters and its filters are as the
\* loader set them: from the start of today to the moment of the load, no
\* phone filter.
DefaultFilters ==
    /\ dash.open
    /\ dash.url = PlainUrl
    /\ dash.phone = ""
    /\ dash.dateFrom = StartOfToday
    /\ dash.dateTo = dash.loadedAt

\* C29: with the default filters, the handler of the INSERT event of every
\* order inserted for the store while the dashboard is subscribed goes on to
\* the notification and the re-fetch (the event is handled once, so an event
\* the handler drops never surfaces).
C29_DefaultFiltersNotifyEveryInsert ==
    [][(InsertDelivered /\ DefaultFilters) => dashEvent'.flag]_vars

\* C30: when saveOrder completes for an order whose notification is on
\* display (its INSERT event was handled between the two inserts), the item
\* count of the notification is the number of orderitem rows the order has.
C30_NotificationCountsOrderItems ==
    [][(/\ saving.pc = "ordered" /\ saving'.pc = "idle"
        /\ dash.open
        /\ dash.notification.orderId = saving.orderId)
         => dash'.notification.items
              = Len(ItemsOfOrder(orderitems', saving.orderId))]_vars

\* The step is a press of the sound button (one that changed anything).
SoundToggled ==
    /\ dashEvent'.op \in {"soundOff", "armed", "armFailed"}
    /\ (dashEvent' # dashEvent \/ dash' # dash)

TotalPages(count) ==
    IF count = 0 THEN 1 ELSE (count + PAGE_SIZE - 1) \div PAGE_SIZE

\* The step is a load of the dashboard page.
DashLoaded ==
    /\ dashEvent'.op = "load"
    /\ (dashEvent' # dashEvent \/ dash' # dash)

\* C25: the list the dashboard shows for a page number beyond the last page
\* is empty (and the loader answered, the page is open), and for every page
\* number the loader reports the same totalCount for the same store, filters
\* and orders: the number of the store's orders that pass the filters.
C25_PageBeyondLastIsEmpty ==
    /\ [][DashLoaded
            => /\ dash'.open
               /\ dash'.page > TotalPages(dash'.totalCount)
                    => dash'.orders = <<>>
               /\ \A p \in 1..MaxPage :
                    OrdersLoader(dash'.profileId, orders', createdat',
                                 [dash'.url EXCEPT !.page = p],
                                 now').totalCount = dash'.totalCount
               /\ dash'.totalCount
                    = Cardinality({k \in 1..Len(orders') :
                         /\ orders'[k].profile_id = dash'.profileId
                         /\ createdat'[k] >= dash'.dateFrom
                         /\ createdat'[k] <= dash'.dateTo
                         /\ (dash'.phone = ""
                               \/ Includes(orders'[k].phoneNumber,
                                           dash'.phone))})
               /\ dash'.page = 1 /\ dash'.totalCount <= PAGE_SIZE
                    => Len(dash'.orders) = dash'.totalCount]_vars

\* Page 2 of a store with one matching order under a phone filter: the list
\* is empty and the count is 1.
C25_Witness ==
    /\ dash.open /\ dash.page = 2
    /\ dash.url.phone = "0-1"
    /\ dash.totalCount = 1
    /\ dash.orders = <<>>

\* C24: the order-accepted webhook payload built by an accept request of a
\* caller signed in as one store holds no data of an order of another
\* store: when the order id names such an order, the payload has no line
\* items and no phone number.  (The order list and the realtime channel are
\* filtered on the caller's store: C21, C25.)
C24_AcceptPayloadIsTenantScoped ==
    [][(CrossTenantAccept /\ last'.hooks > 0)
         => /\ last'.cart = <<>>
            /\ AcceptPayloadPhone(orders', last'.orderId) = NoPhone]_vars
====
